---- MODULE Spec2Model ----
(***************************************************************************)
(* Model of the bencode codec of ayu-ch/Bittorrent-Client: the decoder     *)
(* (package bencode, Unmarshal and its helpers) and the encoder (Marshal   *)
(* and its helpers), together with the one caller-side value the torrent   *)
(* package hands to Marshal that lies outside the codec's four variants    *)
(* (a []byte, built by marshallableInfo).                                  *)
(*                                                                         *)
(* Bytes are modelled by their ASCII codes, Go strings and []byte buffers  *)
(* by sequences of bytes, a bytes.Reader by the pair (data, pos) where pos *)
(* is the number of bytes already read.  Go values of type `any` are       *)
(* tagged records.                                                         *)
(***************************************************************************)
EXTENDS Integers, Sequences, FiniteSets, TLC

(***************************************************************************)
(* Bytes the code compares against or writes.                              *)
(***************************************************************************)
ch_i == 105
ch_l == 108
ch_d == 100
ch_e == 101
ch_colon == 58
ch_minus == 45
ch_plus == 43
ch_0 == 48
ch_9 == 57

IsDigit(c) == c >= ch_0 /\ c <= ch_9

(***************************************************************************)
(* Go values (type any).                                                   *)
(*   int            -> IntV(n)                                             *)
(*   string         -> StrV(s)                                             *)
(*   []any          -> ListV(items, isNil); isNil tells a nil slice from   *)
(*                     an empty one (unmarshalList returns a nil slice for *)
(*                     "le")                                               *)
(*   map[string]any -> DictV(m), m a function from keys to values          *)
(*   []byte         -> BytesV(s): a type outside marshalValue's switch     *)
(*   nil            -> NilV                                                *)
(***************************************************************************)
IntV(n) == [tag |-> "int", v |-> n]
StrV(s) == [tag |-> "string", v |-> s]
ListV(items, isNil) == [tag |-> "list", v |-> items, nil |-> isNil]
DictV(m) == [tag |-> "dict", v |-> m]
BytesV(s) == [tag |-> "bytes", v |-> s]
NilV == [tag |-> "nil"]

EmptyMap == [k \in {} |-> NilV]

(***************************************************************************)
(* Errors.  The decoder returns io.EOF and io.ErrUnexpectedEOF unchanged   *)
(* and wraps strconv's errors with fmt.Errorf; a runtime panic is not a    *)
(* returned error at all.                                                  *)
(***************************************************************************)
ErrNil == "nil"
ErrEOF == "io.EOF"
ErrUnexpectedEOF == "io.ErrUnexpectedEOF"
ErrInvalidInt == "invalid integer value"
ErrInvalidLen == "invalid string length"
ErrUnsupported == "Unsupported type"
PanicMakeslice == "panic: makeslice: len out of range"

(***************************************************************************)
(* strconv.Atoi in base 10: an optional '+' or '-', then at least one      *)
(* digit and nothing else.  Leading zeros are accepted.                    *)
(***************************************************************************)
RECURSIVE DigitsValue(_, _)
DigitsValue(s, acc) ==
    IF s = <<>> THEN acc ELSE DigitsValue(Tail(s), acc * 10 + (Head(s) - ch_0))

Atoi(s) ==
    LET signed == s /= <<>> /\ Head(s) \in {ch_plus, ch_minus}
        digits == IF signed THEN Tail(s) ELSE s
    IN  IF digits = <<>> \/ \E k \in 1..Len(digits) : ~IsDigit(digits[k])
        THEN [n |-> 0, ok |-> FALSE]
        ELSE [n |-> IF signed /\ Head(s) = ch_minus
                    THEN 0 - DigitsValue(digits, 0)
                    ELSE DigitsValue(digits, 0),
              ok |-> TRUE]

(***************************************************************************)
(* strconv.Itoa: the minimal decimal numeral, '-' for negative numbers.    *)
(***************************************************************************)
RECURSIVE NatDigits(_)
NatDigits(n) ==
    IF n < 10 THEN <<ch_0 + n>> ELSE Append(NatDigits(n \div 10), ch_0 + (n % 10))

Itoa(n) == IF n < 0 THEN <<ch_minus>> \o NatDigits(0 - n) ELSE NatDigits(n)

(***************************************************************************)
(* The reader.                                                             *)
(***************************************************************************)
readByte(data, pos) ==
    IF pos >= Len(data)
    THEN [b |-> 0, err |-> ErrEOF, pos |-> pos]
    ELSE [b |-> data[pos + 1], err |-> ErrNil, pos |-> pos + 1]

\* Faulty variant: the reader is not moved back.
unreadByte_noSeek(pos) == pos

unreadByte(pos) == pos - 1

RECURSIVE readUntilColon(_, _, _)
readUntilColon(data, pos, buf) ==
    LET r == readByte(data, pos)
    IN  IF r.err /= ErrNil THEN [s |-> <<>>, err |-> r.err, pos |-> r.pos]
        ELSE IF r.b = ch_colon THEN [s |-> buf, err |-> ErrNil, pos |-> r.pos]
        ELSE readUntilColon(data, r.pos, Append(buf, r.b))

\* Faulty variant: a single Read, which returns what is left without an
\* error when fewer than n bytes remain.
ReadFull_short(data, pos, n) ==
    LET left == Len(data) - pos
        m == IF left < n THEN left ELSE n
    IN  IF n > 0 /\ left = 0 THEN [s |-> <<>>, err |-> ErrEOF, pos |-> pos]
        ELSE [s |-> SubSeq(data, pos + 1, pos + m), err |-> ErrNil, pos |-> pos + m]

(***************************************************************************)
(* io.ReadFull(r, make([]byte, n)) for n >= 0.                             *)
(***************************************************************************)
ReadFull(data, pos, n) ==
    LET left == Len(data) - pos
    IN  IF n = 0 THEN [s |-> <<>>, err |-> ErrNil, pos |-> pos]
        ELSE IF left = 0 THEN [s |-> <<>>, err |-> ErrEOF, pos |-> pos]
        ELSE IF left < n
             THEN [s |-> <<>>, err |-> ErrUnexpectedEOF, pos |-> Len(data)]
        ELSE [s |-> SubSeq(data, pos + 1, pos + n), err |-> ErrNil, pos |-> pos + n]

(***************************************************************************)
(* Go's string order (sort.Strings, <): byte-wise lexicographic.           *)
(***************************************************************************)
RECURSIVE Less(_, _)
Less(a, b) ==
    IF b = <<>> THEN FALSE
    ELSE IF a = <<>> THEN TRUE
    ELSE IF Head(a) /= Head(b) THEN Head(a) < Head(b)
    ELSE Less(Tail(a), Tail(b))

(***************************************************************************)
(* Observations of one decode, kept beside its result.  They are not       *)
(* program state: they record what the decoder read, so that properties    *)
(* about positions in the input can be stated.                             *)
(*   leads: the bytes unmarshalValue read where a value is expected        *)
(*   keys:  the bytes unmarshalDict read where a key is expected           *)
(*   canon: every numeral read was minimal and unsigned where the grammar  *)
(*          has no sign, and every dictionary's keys came strictly         *)
(*          ascending                                                      *)
(***************************************************************************)
NoObs == [leads |-> {}, keys |-> {}, canon |-> TRUE]
Merge(g, h) ==
    [leads |-> g.leads \cup h.leads, keys |-> g.keys \cup h.keys,
     canon |-> g.canon /\ h.canon]

MinimalDigits(s) ==
    /\ s /= <<>>
    /\ \A k \in 1..Len(s) : IsDigit(s[k])
    /\ (Len(s) > 1 => s[1] /= ch_0)

MinimalInt(s) ==
    \/ MinimalDigits(s)
    \/ /\ s /= <<>>
       /\ Head(s) = ch_minus
       /\ MinimalDigits(Tail(s))
       /\ Tail(s) /= <<ch_0>>

(***************************************************************************)
(* A decode result: the value, the error, the reader's offset afterwards.  *)
(***************************************************************************)
Ok(val, pos, obs) == [val |-> val, err |-> ErrNil, pos |-> pos, obs |-> obs]
Fail(err, pos, obs) == [val |-> NilV, err |-> err, pos |-> pos, obs |-> obs]

RECURSIVE unmarshalIntLoop(_, _, _)
unmarshalIntLoop(data, pos, buf) ==
    LET r == readByte(data, pos)
    IN  IF r.err /= ErrNil THEN [s |-> <<>>, err |-> r.err, pos |-> r.pos]
        ELSE IF r.b = ch_e THEN [s |-> buf, err |-> ErrNil, pos |-> r.pos]
        ELSE unmarshalIntLoop(data, r.pos, Append(buf, r.b))

unmarshalInt(data, pos) ==
    LET t == unmarshalIntLoop(data, pos, <<>>)
        a == Atoi(t.s)
        obs == [NoObs EXCEPT !.canon = MinimalInt(t.s)]
    IN  IF t.err /= ErrNil THEN Fail(t.err, t.pos, NoObs)
        ELSE IF ~a.ok THEN Fail(ErrInvalidInt, t.pos, obs)
        ELSE Ok(IntV(a.n), t.pos, obs)

\* Faulty variant: strconv.Atoi's error is dropped, an unparsable length
\* counts as 0.
unmarshalString_ignoreErr(data, pos) ==
    LET t == readUntilColon(data, pos, <<>>)
        a == Atoi(t.s)
        obs == [NoObs EXCEPT !.canon = MinimalDigits(t.s)]
        f == ReadFull(data, t.pos, a.n)
    IN  IF t.err /= ErrNil THEN Fail(t.err, t.pos, NoObs)
        ELSE IF a.n < 0 THEN Fail(PanicMakeslice, t.pos, obs)
        ELSE IF f.err /= ErrNil THEN Fail(f.err, f.pos, obs)
        ELSE Ok(StrV(f.s), f.pos, obs)

unmarshalString(data, pos) ==
    LET t == readUntilColon(data, pos, <<>>)
        a == Atoi(t.s)
        obs == [NoObs EXCEPT !.canon = MinimalDigits(t.s)]
        f == ReadFull(data, t.pos, a.n)
    IN  IF t.err /= ErrNil THEN Fail(t.err, t.pos, NoObs)
        ELSE IF ~a.ok THEN Fail(ErrInvalidLen, t.pos, obs)
        ELSE IF a.n < 0 THEN Fail(PanicMakeslice, t.pos, obs)
        ELSE IF f.err /= ErrNil THEN Fail(f.err, f.pos, obs)
        ELSE Ok(StrV(f.s), f.pos, obs)

RECURSIVE unmarshalValue(_, _)
RECURSIVE unmarshalListLoop(_, _, _, _)
RECURSIVE unmarshalDictLoop(_, _, _, _, _)

unmarshalList(data, pos) == unmarshalListLoop(data, pos, <<>>, NoObs)

unmarshalDict(data, pos) == unmarshalDictLoop(data, pos, EmptyMap, <<>>, NoObs)

unmarshalValue(data, pos) ==
    LET r == readByte(data, pos)
        lead == [NoObs EXCEPT !.leads = {r.b}]
        sub == IF r.b = ch_i THEN unmarshalInt(data, r.pos)
               ELSE IF r.b = ch_l THEN unmarshalList(data, r.pos)
               ELSE IF r.b = ch_d THEN unmarshalDict(data, r.pos)
               ELSE unmarshalString(data, unreadByte(r.pos))
    IN  IF r.err /= ErrNil THEN Fail(r.err, r.pos, NoObs)
        ELSE [sub EXCEPT !.obs = Merge(lead, sub.obs)]

unmarshalListLoop(data, pos, list, obs) ==
    LET r == readByte(data, pos)
        item == unmarshalValue(data, unreadByte(r.pos))
        seen == Merge(obs, item.obs)
    IN  IF r.err /= ErrNil THEN Fail(r.err, r.pos, obs)
        ELSE IF r.b = ch_e THEN Ok(ListV(list, list = <<>>), r.pos, obs)
        ELSE IF item.err /= ErrNil THEN Fail(item.err, item.pos, seen)
        ELSE unmarshalListLoop(data, item.pos, Append(list, item.val), seen)

unmarshalDictLoop(data, pos, dict, read, obs) ==
    LET r == readByte(data, pos)
        key == unmarshalString(data, unreadByte(r.pos))
        value == unmarshalValue(data, key.pos)
        atKey == Merge(Merge(obs, [NoObs EXCEPT !.keys = {r.b}]), key.obs)
        ascending == read = <<>> \/ Less(read[Len(read)], key.val.v)
        seen == Merge(atKey, [value.obs EXCEPT !.canon = @ /\ ascending])
    IN  IF r.err /= ErrNil THEN Fail(r.err, r.pos, obs)
        ELSE IF r.b = ch_e THEN Ok(DictV(dict), r.pos, obs)
        ELSE IF key.err /= ErrNil THEN Fail(key.err, key.pos, atKey)
        ELSE IF value.err /= ErrNil THEN Fail(value.err, value.pos, seen)
        ELSE unmarshalDictLoop(data, value.pos,
                               (key.val.v :> value.val) @@ dict,
                               Append(read, key.val.v), seen)

(***************************************************************************)
(* Unmarshal reads one value from the start of data and returns            *)
(* (value, error): the reader and its offset are dropped.                  *)
(***************************************************************************)
Unmarshal(data) ==
    LET r == unmarshalValue(data, 0)
    IN  [val |-> r.val, err |-> r.err]

(***************************************************************************)
(* `for k := range dict`: Go yields a map's keys in an order it does not   *)
(* specify.  RangeKeys enumerates the keys in the permutation numbered     *)
(* iter (factorial number system over the keys not yet yielded).           *)
(***************************************************************************)
Smallest(S) == CHOOSE a \in S : \A b \in S \ {a} : Less(a, b)

RECURSIVE Nth(_, _)
Nth(S, n) == IF n = 0 THEN Smallest(S) ELSE Nth(S \ {Smallest(S)}, n - 1)

RECURSIVE RangeKeys(_, _)
RangeKeys(S, iter) ==
    IF S = {} THEN <<>>
    ELSE LET k == Nth(S, iter % Cardinality(S))
         IN  <<k>> \o RangeKeys(S \ {k}, iter \div Cardinality(S))

(***************************************************************************)
(* sort.Strings: ascending in Go's string order (insertion sort).          *)
(***************************************************************************)
RECURSIVE Insert(_, _)
Insert(sorted, k) ==
    IF sorted = <<>> THEN <<k>>
    ELSE IF Less(k, Head(sorted)) THEN <<k>> \o sorted
    ELSE <<Head(sorted)>> \o Insert(Tail(sorted), k)

\* Faulty variant: the keys are sorted the wrong way round.
RECURSIVE SortStrings_descending(_)
SortStrings_descending(keys) ==
    IF keys = <<>> THEN <<>>
    ELSE LET rest == SortStrings_descending(SubSeq(keys, 1, Len(keys) - 1))
             k == keys[Len(keys)]
             n == Cardinality({j \in 1..Len(rest) : Less(k, rest[j])})
         IN  SubSeq(rest, 1, n) \o <<k>> \o SubSeq(rest, n + 1, Len(rest))

RECURSIVE SortStrings(_)
SortStrings(keys) ==
    IF keys = <<>> THEN <<>>
    ELSE Insert(SortStrings(SubSeq(keys, 1, Len(keys) - 1)), keys[Len(keys)])

(***************************************************************************)
(* The encoder.  b is the bytes.Buffer written so far; marshalValue        *)
(* returns the buffer and its error, marshalList and marshalDict return    *)
(* the buffer only (they have no result in the code).                      *)
(***************************************************************************)
marshalInt(v, b) == b \o <<ch_i>> \o Itoa(v) \o <<ch_e>>

\* Faulty variant: the ':' after the length is left out.
marshalString_noColon(s, b) == b \o Itoa(Len(s)) \o s

marshalString(s, b) == b \o Itoa(Len(s)) \o <<ch_colon>> \o s

RECURSIVE marshalValue(_, _, _)
RECURSIVE marshalListLoop(_, _, _, _)
RECURSIVE marshalDictLoop(_, _, _, _, _)

marshalList(list, b, iter) == marshalListLoop(list, 1, b \o <<ch_l>>, iter)

\* Faulty variant: the keys are written in the order the map yields them.
marshalDict_unsorted(dict, buf, iter) ==
    marshalDictLoop(dict, RangeKeys(DOMAIN dict, iter), 1, buf \o <<ch_d>>, iter)

marshalDict(dict, buf, iter) ==
    marshalDictLoop(dict, SortStrings(RangeKeys(DOMAIN dict, iter)), 1,
                    buf \o <<ch_d>>, iter)

marshalValue(v, b, iter) ==
    IF v.tag = "int" THEN [buf |-> marshalInt(v.v, b), err |-> ErrNil]
    ELSE IF v.tag = "string" THEN [buf |-> marshalString(v.v, b), err |-> ErrNil]
    ELSE IF v.tag = "list" THEN [buf |-> marshalList(v.v, b, iter), err |-> ErrNil]
    ELSE IF v.tag = "dict" THEN [buf |-> marshalDict(v.v, b, iter), err |-> ErrNil]
    ELSE [buf |-> b, err |-> ErrUnsupported]

marshalListLoop(list, n, b, iter) ==
    LET item == marshalValue(list[n], b, iter)
    IN  IF n > Len(list) THEN b \o <<ch_e>>
        ELSE IF item.err /= ErrNil THEN item.buf
        ELSE marshalListLoop(list, n + 1, item.buf, iter)

marshalDictLoop(dict, keys, n, buf, iter) ==
    LET value == marshalValue(dict[keys[n]], marshalString(keys[n], buf), iter)
    IN  IF n > Len(keys) THEN buf \o <<ch_e>>
        ELSE IF value.err /= ErrNil THEN value.buf
        ELSE marshalDictLoop(dict, keys, n + 1, value.buf, iter)

(***************************************************************************)
(* Marshal returns (nil, err) when marshalValue fails and (buf.Bytes(),    *)
(* nil) otherwise.                                                         *)
(***************************************************************************)
Marshal(v, iter) ==
    LET r == marshalValue(v, <<>>, iter)
    IN  IF r.err /= ErrNil THEN [bytes |-> <<>>, err |-> r.err]
        ELSE [bytes |-> r.buf, err |-> ErrNil]

(***************************************************************************)
(* Bounds of the model.                                                    *)
(***************************************************************************)
MaxNodes == 4
MaxLen == 4
MaxTokens == 6

(***************************************************************************)
(* Inputs.  Leaves are the values a caller puts into a tree; BytesV is the *)
(* []byte marshallableInfo stores under "pieces".  Keys are dictionary     *)
(* keys ("a" sorts before "ab", "ab" before "b"), Tails the values whose    *)
(* encodings follow another in a stream.  Alphabet holds the bytes a       *)
(* received buffer is made of, Tokens the well-formed pieces a longer      *)
(* buffer is made of.  Iters numbers the orders in which a map of up to    *)
(* three keys can be iterated.                                             *)
(***************************************************************************)
Str_a == <<97>>
Str_ab == <<97, 98>>
Str_b == <<98>>

Leaves ==
    {IntV(0), IntV(0 - 12), StrV(<<>>), StrV(Str_ab), BytesV(<<>>),
     ListV(<<>>, FALSE), DictV(EmptyMap)}

Keys == {Str_a, Str_ab, Str_b}

Tails == {IntV(0 - 12), StrV(Str_ab)}

Alphabet ==
    {ch_i, ch_l, ch_d, ch_e, ch_colon, ch_minus, ch_plus, ch_0, ch_0 + 1, 97}

Tokens ==
    {<<ch_d>>, <<ch_e>>, <<ch_i, ch_0, ch_e>>, <<ch_0, ch_colon>>,
     <<ch_0 + 2, ch_colon>> \o Str_ab}

Iters == 0..5

RECURSIVE Size(_)
RECURSIVE SizeSum(_, _)
Size(x) ==
    IF x.tag = "list" THEN 1 + SizeSum([k \in 1..Len(x.v) |-> Size(x.v[k])], Len(x.v))
    ELSE IF x.tag = "dict"
    THEN LET ks == SortStrings(RangeKeys(DOMAIN x.v, 0))
         IN  1 + SizeSum([k \in 1..Len(ks) |-> Size(x.v[ks[k]])], Len(ks))
    ELSE 1
SizeSum(f, n) == IF n = 0 THEN 0 ELSE f[n] + SizeSum(f, n - 1)

(***************************************************************************)
(* State.                                                                  *)
(*   v     the value the caller holds for Marshal (NilV: none)             *)
(*   enc   what Marshal returned, [bytes, err]                             *)
(*   data  the buffer handed to the decoder                                *)
(*   src   where data came from: "raw", "tokens" (received), "whole" (a    *)
(*         Marshal output), "cut" (a Marshal output cut short), "stream"   *)
(*         (two Marshal outputs, one after the other)                      *)
(*   sent  the values whose encodings make up data, for "whole"/"stream"   *)
(*   ret   what Unmarshal returned, [val, err]                             *)
(*   rd    the reader after the last unmarshalValue call on it: the        *)
(*         call's result, the offset reached, the observations             *)
(*   vals  the values read from the reader so far                          *)
(*   pc    the caller's position ("panicked": ended by a runtime panic)    *)
(***************************************************************************)
VARIABLES v, enc, data, src, sent, ret, rd, vals, pc

vars == <<v, enc, data, src, sent, ret, rd, vals, pc>>

NoEnc == [bytes |-> <<>>, err |-> "none"]
NoRet == [val |-> NilV, err |-> "none"]
NoRd == [val |-> NilV, err |-> "none", pos |-> 0, obs |-> NoObs]

Init ==
    /\ v = NilV
    /\ enc = NoEnc
    /\ data = <<>>
    /\ src = "none"
    /\ sent = <<>>
    /\ ret = NoRet
    /\ rd = NoRd
    /\ vals = <<>>
    /\ pc = "idle"

(***************************************************************************)
(* The caller builds a value tree, as marshallableInfo and                 *)
(* marshallableFile do: a literal, m[k] = x, append(list, x).              *)
(***************************************************************************)
NewValue ==
    /\ pc = "idle"
    /\ \E x \in Leaves : v' = x
    /\ pc' = "build"
    /\ UNCHANGED <<enc, data, src, sent, ret, rd, vals>>

WrapList ==
    /\ pc = "build"
    /\ Size(v) < MaxNodes
    /\ v' = ListV(<<v>>, FALSE)
    /\ UNCHANGED <<enc, data, src, sent, ret, rd, vals, pc>>

WrapDict ==
    /\ pc = "build"
    /\ Size(v) < MaxNodes
    /\ \E k \in Keys : v' = DictV(k :> v)
    /\ UNCHANGED <<enc, data, src, sent, ret, rd, vals, pc>>

AppendItem ==
    /\ pc = "build"
    /\ v.tag = "list"
    /\ Size(v) < MaxNodes
    /\ \E x \in Leaves : v' = ListV(Append(v.v, x), FALSE)
    /\ UNCHANGED <<enc, data, src, sent, ret, rd, vals, pc>>

PutEntry ==
    /\ pc = "build"
    /\ v.tag = "dict"
    /\ Size(v) < MaxNodes
    /\ \E k \in Keys \ DOMAIN v.v, x \in Leaves : v' = DictV((k :> x) @@ v.v)
    /\ UNCHANGED <<enc, data, src, sent, ret, rd, vals, pc>>

(***************************************************************************)
(* bencode.Marshal(v), under any order of map iteration.                   *)
(***************************************************************************)
DoMarshal ==
    /\ pc = "build"
    /\ \E it \in Iters : enc' = Marshal(v, it)
    /\ pc' = "marshalled"
    /\ UNCHANGED <<v, data, src, sent, ret, rd, vals>>

(***************************************************************************)
(* What a decoder is then given: the bytes Marshal returned, the bytes cut *)
(* short, or the bytes followed by the encoding of a second value.         *)
(***************************************************************************)
SendWhole ==
    /\ pc = "marshalled"
    /\ enc.err = ErrNil
    /\ data' = enc.bytes
    /\ src' = "whole"
    /\ sent' = <<v>>
    /\ pc' = "ready"
    /\ UNCHANGED <<v, enc, ret, rd, vals>>

SendCut ==
    /\ pc = "marshalled"
    /\ enc.err = ErrNil
    /\ \E n \in 0..(Len(enc.bytes) - 1) : data' = SubSeq(enc.bytes, 1, n)
    /\ src' = "cut"
    /\ pc' = "ready"
    /\ UNCHANGED <<v, enc, sent, ret, rd, vals>>

SendStream ==
    /\ pc = "marshalled"
    /\ enc.err = ErrNil
    /\ \E w \in Tails :
          /\ data' = enc.bytes \o Marshal(w, 0).bytes
          /\ sent' = <<v, w>>
    /\ src' = "stream"
    /\ pc' = "ready"
    /\ UNCHANGED <<v, enc, ret, rd, vals>>

(***************************************************************************)
(* Bytes received from outside (a .torrent file, a tracker's response).    *)
(***************************************************************************)
ReceiveByte ==
    /\ pc = "idle" \/ (pc = "ready" /\ src = "raw")
    /\ Len(data) < MaxLen
    /\ \E b \in Alphabet : data' = Append(data, b)
    /\ src' = "raw"
    /\ pc' = "ready"
    /\ UNCHANGED <<v, enc, sent, ret, rd, vals>>

ReceiveToken ==
    /\ pc = "idle" \/ (pc = "ready" /\ src = "tokens")
    /\ Len(sent) < MaxTokens
    /\ \E t \in Tokens : data' = data \o t
    /\ src' = "tokens"
    /\ sent' = Append(sent, NilV)
    /\ pc' = "ready"
    /\ UNCHANGED <<v, enc, ret, rd, vals>>

(***************************************************************************)
(* bencode.Unmarshal(data): a new reader on data, one unmarshalValue.  A    *)
(* panic inside it returns nothing: no caller recovers, the program ends.  *)
(***************************************************************************)
DoUnmarshal ==
    /\ pc = "ready"
    /\ rd' = unmarshalValue(data, 0)
    /\ ret' = IF rd'.err = PanicMakeslice THEN NoRet ELSE Unmarshal(data)
    /\ pc' = IF rd'.err = PanicMakeslice THEN "panicked" ELSE "decoded"
    /\ vals' = IF ret'.err = ErrNil THEN <<ret'.val>> ELSE <<>>
    /\ UNCHANGED <<v, enc, data, src, sent>>

(***************************************************************************)
(* One more unmarshalValue on the same reader, as unmarshalList does for   *)
(* each element.                                                           *)
(***************************************************************************)
ReadNext ==
    /\ pc = "decoded"
    /\ rd.err = ErrNil
    /\ rd.pos < Len(data)
    /\ rd' = unmarshalValue(data, rd.pos)
    /\ vals' = IF rd'.err = ErrNil THEN Append(vals, rd'.val) ELSE vals
    /\ UNCHANGED <<v, enc, data, src, sent, ret, pc>>

(***************************************************************************)
(* bencode.Marshal of the value Unmarshal returned.                        *)
(***************************************************************************)
ReMarshal ==
    /\ pc = "decoded"
    /\ ret.err = ErrNil
    /\ \E it \in Iters : enc' = Marshal(ret.val, it)
    /\ pc' = "remarshalled"
    /\ UNCHANGED <<v, data, src, sent, ret, rd, vals>>

(***************************************************************************)
(* Spec: the decoder on received bytes, and Marshal on what it returned.   *)
(* SpecEnc: the encoder on the caller's values, and the decoder on what    *)
(* Marshal returned.                                                       *)
(***************************************************************************)
Next ==
    \/ ReceiveByte
    \/ ReceiveToken
    \/ DoUnmarshal
    \/ ReMarshal

Spec == Init /\ [][Next]_vars

NextEnc ==
    \/ NewValue
    \/ WrapList
    \/ WrapDict
    \/ AppendItem
    \/ PutEntry
    \/ DoMarshal
    \/ SendWhole
    \/ SendCut
    \/ SendStream
    \/ DoUnmarshal
    \/ ReadNext

SpecEnc == Init /\ [][NextEnc]_vars

(***************************************************************************)
(* Vocabulary of the claims.                                               *)
(***************************************************************************)

\* Built only from integers, byte strings, lists and dictionaries.
RECURSIVE Supported(_)
Supported(x) ==
    IF x.tag = "list" THEN \A k \in 1..Len(x.v) : Supported(x.v[k])
    ELSE IF x.tag = "dict" THEN \A k \in DOMAIN x.v : Supported(x.v[k])
    ELSE x.tag \in {"int", "string"}

\* Structural equality: lists by length and elements (a nil slice and an
\* empty slice both have none), dictionaries by their associations.
RECURSIVE Equal(_, _)
Equal(x, y) ==
    IF x.tag /= y.tag THEN FALSE
    ELSE IF x.tag = "list"
    THEN Len(x.v) = Len(y.v) /\ \A k \in 1..Len(x.v) : Equal(x.v[k], y.v[k])
    ELSE IF x.tag = "dict"
    THEN DOMAIN x.v = DOMAIN y.v /\ \A k \in DOMAIN x.v : Equal(x.v[k], y.v[k])
    ELSE x = y

\* The bytes are the complete encoding of one value.
Complete(b) ==
    LET r == unmarshalValue(b, 0) IN r.err = ErrNil /\ r.pos = Len(b)

\* The errors the decoder returns when the input ends too early, and those
\* it returns for a numeral that does not parse.
TruncationErrors == {ErrEOF, ErrUnexpectedEOF}
GrammarErrors == {ErrInvalidInt, ErrInvalidLen}

ValueLeads == (ch_0..ch_9) \cup {ch_i, ch_l, ch_d}

\* The index of the first 'e' of data, 0 if there is none.
FirstE(b) ==
    IF \E k \in 1..Len(b) : b[k] = ch_e
    THEN CHOOSE k \in 1..Len(b) : b[k] = ch_e /\ \A j \in 1..(k - 1) : b[j] /= ch_e
    ELSE 0

\* The total length of the encodings of the first n values of a sequence.
RECURSIVE EncodedLen(_, _)
EncodedLen(xs, n) ==
    IF n = 0 THEN 0 ELSE EncodedLen(xs, n - 1) + Len(Marshal(xs[n], 0).bytes)

\* The byte count a result of Unmarshal carries, -1 if it carries none.
ReportedCount(r) == IF "consumed" \in DOMAIN r THEN r.consumed ELSE 0 - 1

(***************************************************************************)
(* C1.  Marshal emits every dictionary's entries in strictly ascending     *)
(* byte-wise order of their keys, at every nesting level: the output does  *)
(* not depend on the order in which the map yields its keys, and the keys  *)
(* read back from the output are strictly ascending in every dictionary.   *)
(***************************************************************************)
C1_SortedKeys ==
    pc = "marshalled" =>
        /\ \A it \in Iters : Marshal(v, it) = enc
        /\ Supported(v) => unmarshalValue(enc.bytes, 0).obs.canon

C1_Witness ==
    /\ pc = "marshalled"
    /\ v.tag = "dict"
    /\ \E k \in DOMAIN v.v :
          v.v[k].tag = "dict" /\ Cardinality(DOMAIN v.v[k].v) >= 2

(***************************************************************************)
(* C2.  Round trip: for every value tree v of the four variants,           *)
(* Unmarshal(Marshal(v)) succeeds and yields a value structurally equal    *)
(* to v.                                                                   *)
(***************************************************************************)
C2_RoundTrip ==
    (pc = "decoded" /\ src = "whole" /\ Supported(v)) =>
        ret.err = ErrNil /\ Equal(ret.val, v)

C2_Witness ==
    /\ pc = "decoded"
    /\ src = "whole"
    /\ Supported(v)
    /\ v.tag = "dict"
    /\ \E k \in DOMAIN v.v :
          /\ v.v[k].tag = "list"
          /\ Len(v.v[k].v) = 2
          /\ v.v[k].v[1] = ListV(<<>>, FALSE)
          /\ v.v[k].v[2] = StrV(<<>>)
    /\ ret.val /= v
    /\ Equal(ret.val, v)

(***************************************************************************)
(* C3.  Canonical form is a fixed point: when the input is the canonical   *)
(* encoding of one value (minimal numerals, keys strictly ascending, no    *)
(* byte left over), Marshal(Unmarshal(b)) = b.                             *)
(***************************************************************************)
C3_CanonicalFixedPoint ==
    (pc = "remarshalled" /\ rd.obs.canon /\ rd.pos = Len(data)) =>
        enc.err = ErrNil /\ enc.bytes = data

C3_Witness ==
    /\ pc = "remarshalled"
    /\ rd.obs.canon
    /\ rd.pos = Len(data)
    /\ ret.val.tag = "dict"
    /\ Cardinality(DOMAIN ret.val.v) = 2
    /\ enc.bytes = data

(***************************************************************************)
(* C4.  Marshal reports an error whenever the tree holds a value outside   *)
(* the four variants, at any position, and never returns a nil error with  *)
(* bytes that are not the complete encoding of the tree.                   *)
(***************************************************************************)
C4_UnsupportedReported ==
    pc = "marshalled" =>
        /\ ~Supported(v) => enc.err = ErrUnsupported
        /\ enc.err = ErrNil => Complete(enc.bytes)

(***************************************************************************)
(* C5.  Unmarshal ends, for every input, with a value or a returned error: *)
(* it never aborts.                                                        *)
(***************************************************************************)
C5_ValueOrError ==
    /\ pc /= "panicked"
    /\ pc = "decoded" =>
          \/ ret.err = ErrNil /\ ret.val /= NilV
          \/ ret.err \in TruncationErrors \cup GrammarErrors /\ ret.val = NilV

(***************************************************************************)
(* C6.  An integer token i...e whose text is not a minimal numeral (empty, *)
(* leading zero, negative zero, a sign other than one leading '-', a       *)
(* non-digit) decodes to the malformed-integer error, never to a value.    *)
(***************************************************************************)
C6_MalformedInteger ==
    (/\ pc = "decoded"
     /\ data /= <<>>
     /\ data[1] = ch_i
     /\ FirstE(data) /= 0
     /\ ~MinimalInt(SubSeq(data, 2, FirstE(data) - 1))) =>
        ret.err = ErrInvalidInt

(***************************************************************************)
(* C7.  Where a value is expected, a first byte that is not a digit, 'i',  *)
(* 'l' or 'd' makes the decode fail: it never returns a value.             *)
(***************************************************************************)
C7_InvalidLeadingByte ==
    (pc = "decoded" /\ ~(rd.obs.leads \subseteq ValueLeads)) => ret.err /= ErrNil

C9_NonStringKey ==
    (pc \in {"decoded", "remarshalled"}
        /\ rd.obs.keys \cap {ch_i, ch_l, ch_d} /= {}) =>
        ret.err /= ErrNil

C9_Witness ==
    /\ pc = "decoded"
    /\ src = "tokens"
    /\ ch_0 \in rd.obs.keys
    /\ ch_i \in rd.obs.keys
    /\ ret.err = ErrInvalidLen

====
